---- MODULE Spec2Model ----
(***************************************************************************)
(* A model of dynamolock: lease based advisory locks kept in one row per   *)
(* name of a store with single-item conditional writes                     *)
(* (dynamolock/client.py), the policy and the schema adapter they use      *)
(* (policy.py, schema.py) and the heartbeat worker (worker.py).            *)
(*                                                                         *)
(* Real time advances in seconds.  Timestamps, durations and the acquire   *)
(* timeout are in milliseconds as in the code; the retry period and the    *)
(* worker's period are in seconds.  Every store call is one atomic step;   *)
(* the steps of one thread happen in program order, and time may pass      *)
(* between any two steps.                                                  *)
(***************************************************************************)
EXTENDS Integers, Sequences, FiniteSets, TLC

VARIABLES
    now,      \* real time, in seconds
    store,    \* the table: name -> row (attribute dict) or NoRow
    locks,    \* client -> name -> cached lock or None   (client.locks)
    pc,       \* client -> position of the user thread
    acq,      \* client -> local variables of the running acquire_lock call
    wpc,      \* client -> position of the heartbeat worker thread
    wtodo,    \* client -> locks of the worker's snapshot not touched yet
    wsleep,   \* client -> seconds left until the worker's next cycle is due
    wstop,    \* client -> the worker's stop signal is set   (_is_stopped)
    join,     \* client -> seconds left of the join of the running shutdown
    rtodo,    \* client -> locks release_all_locks has still to release
    rall,     \* client -> the running release_all_locks call
    rel,      \* client -> the release_lock call between store call and cleanup
    ev        \* the last call that returned: operation, client and result

vars == <<now, store, locks, pc, acq, wpc, wtodo, wsleep, wstop, join, rtodo,
         rall, rel, ev>>

----------------------------------------------------------------------------
(* Bounds of the model *)

MaxTime == 2      \* the clock stops here

Clients  == {"c1", "c2"}
Names    == {"job", "log"}

(* The policy the clients are built with, and the worker's period. *)
AcquireTimeout  == 1000  \* policy.acquire_timeout, milliseconds
RetryPeriod     == 1     \* policy.retry_period, seconds
LockDuration    == 1000  \* policy.lock_duration, milliseconds
HeartbeatPeriod == 1     \* worker.period, seconds
DeleteLock      == TRUE  \* policy.delete_lock

(* Each client reads its own wall clock; the clocks differ by a constant  *)
(* number of seconds.                                                     *)
ClockOffset == [c \in Clients |-> IF c = "c1" THEN 0 ELSE 3]

None        == [none |-> TRUE]     \* Python None where a lock is expected
NoRow       == [absent |-> TRUE]   \* no item under the key
NullPayload == "null"              \* Python None as a payload
NoParams    == [k \in {} |-> k]    \* empty **params

(* The user code of c1 starts the heartbeat worker and publishes a payload *)
(* with its locks; that of c2 does neither.                                *)
Workers  == {"c1"}

ParamsArgs(c) == IF c = "c1" THEN {[payload |-> "p"]} ELSE {NoParams}

(* c2 also calls try_acquire_lock. *)
NoWaitArgs(c) == IF c = "c1" THEN {FALSE} ELSE BOOLEAN

LockFields == {"name", "version", "owner", "duration", "timestamp",
               "is_locked", "payload"}

----------------------------------------------------------------------------
(* policy.py *)

Owner(c) == c

Millis(seconds) == 1000 * seconds

(* get_new_timestamp as client c reads it *)
Clock(c) == Millis(now + ClockOffset[c])

IsNameValid(name) == name # ""

(* Version tokens are compared for equality only.  The tokens referenced  *)
(* anywhere in a state are kept numbered 1..k in the order they were      *)
(* drawn, so that states that differ in the names of their tokens only    *)
(* are one state.                                                         *)
VersionsOf(S) == {l.version : l \in {k \in S : k # None}}

(* The components of the state that hold version tokens. *)
Cur == [store |-> store, locks |-> locks, acq |-> acq, wtodo |-> wtodo,
        rtodo |-> rtodo, rall |-> rall, rel |-> rel]

UsedIn(S) ==
    {S.store[n].V : n \in {m \in Names : S.store[m] # NoRow}}
    \cup VersionsOf({S.locks[c][n] : c \in Clients, n \in Names})
    \cup VersionsOf({S.acq[c].current_lock : c \in Clients})
    \cup VersionsOf({S.acq[c].watching_lock : c \in Clients})
    \cup VersionsOf(UNION {S.wtodo[c] : c \in Clients})
    \cup VersionsOf(UNION {S.rtodo[c] : c \in Clients})

(* uuid4: a token that differs from every token in use. *)
NewVersion == Cardinality(UsedIn(Cur)) + 1

----------------------------------------------------------------------------
(* schema.py *)

Attr == [name |-> "N", duration |-> "D", is_locked |-> "L",
         owner |-> "O", version |-> "V", payload |-> "P"]

FieldOf(a) == CHOOSE k \in DOMAIN Attr : Attr[k] = a

ToSchema(params) ==
    [a \in {Attr[k] : k \in (DOMAIN params) \cap (DOMAIN Attr)}
        |-> params[FieldOf(a)]]

ToDict(row) ==
    [k \in DOMAIN Attr |->
        IF Attr[k] \in DOMAIN row THEN row[Attr[k]] ELSE NullPayload]

----------------------------------------------------------------------------
(* The table's conditional primitives *)

Row(name) == IF name \in Names THEN store[name] ELSE NoRow

(* The number a token has once the tokens in dropped are out of use;      *)
(* 0 for a token that is dropped.                                         *)
RenV(v, dropped) ==
    IF v \in dropped THEN 0 ELSE v - Cardinality({d \in dropped : d < v})

RenLock(l, dropped) ==
    IF l = None THEN None ELSE [l EXCEPT !.version = RenV(@, dropped)]

RenRow(r, dropped) ==
    IF r = NoRow THEN NoRow ELSE [r EXCEPT !["V"] = RenV(@, dropped)]

RenStore(st, dropped) == [n \in Names |-> RenRow(st[n], dropped)]

RenLocks(lk, dropped) ==
    [c \in Clients |-> [n \in Names |-> RenLock(lk[c][n], dropped)]]

RenAcq(a, dropped) ==
    [c \in Clients |->
        [a[c] EXCEPT !.current_lock  = RenLock(@, dropped),
                     !.watching_lock = RenLock(@, dropped)]]

(* The step's result S with its tokens renumbered; ev.dropped names the   *)
(* tokens of the state before that went out of use in the step.           *)
Commit(S, event) ==
    LET dropped == (1 .. (Cardinality(UsedIn(Cur)) + 1)) \ UsedIn(S)
    IN  /\ store' = RenStore(S.store, dropped)
        /\ locks' = RenLocks(S.locks, dropped)
        /\ acq'   = RenAcq(S.acq, dropped)
        /\ wtodo' = [c \in Clients |->
                        {RenLock(l, dropped) : l \in S.wtodo[c]}]
        /\ rtodo' = [c \in Clients |->
                        {RenLock(l, dropped) : l \in S.rtodo[c]}]
        /\ rall'  = S.rall
        /\ rel'   = S.rel
        /\ ev'    = [event EXCEPT !.dropped =
                        dropped \ {Cardinality(UsedIn(Cur)) + 1}]

Matches(row, expects) ==
    /\ row # NoRow
    /\ \A a \in DOMAIN expects : a \in DOMAIN row /\ row[a] = expects[a]

PutAttrs(row, updated) ==
    [a \in (DOMAIN row) \cup (DOMAIN updated) |->
        IF a \in DOMAIN updated THEN updated[a] ELSE row[a]]

----------------------------------------------------------------------------
(* lock.py *)

MkLock(params) ==
    [k \in LockFields |-> IF k \in DOMAIN params THEN params[k] ELSE NullPayload]

Replace(lock, updates) ==
    [k \in DOMAIN lock |-> IF k \in DOMAIN updates THEN updates[k] ELSE lock[k]]

----------------------------------------------------------------------------
(* client.py: validation *)

(* A faulty variant of IsLockExpired: the lease is not waited for. *)
IsLockExpiredAtOnce(c, lock) == Clock(c) >= lock.timestamp

IsLockExpired(c, lock) == Clock(c) > lock.timestamp + lock.duration

IsLockActive(c, lock) == Clock(c) <= lock.timestamp + lock.duration

(* is_lock_valid hands the lock tuple, not its name, to is_name_valid:     *)
(* bool() of a tuple is whether it has any field.                          *)
IsLockNameValid(lock) == DOMAIN lock # {}

IsLockValid(c, lock) ==
    /\ IsLockNameValid(lock)
    /\ lock.is_locked
    /\ lock.owner = Owner(c)
    /\ IsLockActive(c, lock)

----------------------------------------------------------------------------
(* client.py: raw store methods.  Each yields what the call did:           *)
(* ok (the write or read took effect), row (the row afterwards) and lock   *)
(* (the value returned).                                                   *)

RetrieveEntry(c, name) ==
    IF Row(name) = NoRow THEN None
    ELSE MkLock([timestamp |-> Clock(c)] @@ ToDict(Row(name)))

DeleteEntry(lock) ==
    LET expected == ToSchema([name |-> lock.name, version |-> lock.version])
    IN  IF Matches(Row(lock.name), expected)
        THEN [ok |-> TRUE,  row |-> NoRow,          ret |-> "true"]
        ELSE [ok |-> FALSE, row |-> Row(lock.name), ret |-> "NameError"]

CreateParams(c, name, params) ==
    [name      |-> name,
     owner     |-> Owner(c),
     version   |-> NewVersion,
     duration  |-> IF "duration" \in DOMAIN params THEN params.duration
                   ELSE LockDuration,
     timestamp |-> Clock(c),
     is_locked |-> TRUE] @@ params

(* A faulty variant of CreateEntry: the put is not conditional. *)
CreateEntryUnconditional(c, name, params) ==
    LET p == CreateParams(c, name, params)
    IN  [ok |-> TRUE, row |-> ToSchema(p), lock |-> MkLock(p)]

CreateEntry(c, name, params) ==
    LET p == CreateParams(c, name, params)
    IN  IF Row(name) = NoRow
        THEN [ok |-> TRUE,  row |-> ToSchema(p), lock |-> MkLock(p)]
        ELSE [ok |-> FALSE, row |-> Row(name),   lock |-> None]

Updates(c, update) ==
    update @@ [version |-> NewVersion, timestamp |-> Clock(c)]

Expects(lock, expect) == ToSchema([k \in expect |-> lock[k]])

(* A faulty variant of DefaultExpect: the update is conditional on the    *)
(* name only.                                                             *)
NameOnlyExpect == {"name"}

DefaultExpect == {"version", "owner", "name"}

UpdateEntry(c, lock, expect, update) ==
    LET updates == Updates(c, update)
        row     == Row(lock.name)
    IN  IF Matches(row, Expects(lock, expect))
        THEN [ok |-> TRUE,  row |-> PutAttrs(row, ToSchema(updates)),
              lock |-> Replace(lock, updates)]
        ELSE [ok |-> FALSE, row |-> row, lock |-> None]

(* The table after a call on the row of name. *)
StoreAfter(name, r) ==
    IF r.ok THEN [store EXCEPT ![name] = r.row] ELSE store


----------------------------------------------------------------------------
(* The record of the last step: the call that returned in it, or Silent  *)
(* when none did.  branch is the branch of acquire_lock that created the  *)
(* lock.                                                                  *)

Ev(op, c, name, ret, branch) ==
    [op |-> op, client |-> c, name |-> name, ret |-> ret, branch |-> branch,
     dropped |-> {}]

Silent == Ev("", "", "", "", 0)

(* The cache of client c with name bound to lock (None: not in the cache) *)
CacheWith(c, name, lock) == [locks EXCEPT ![c][name] = lock]

InCache(c, name) == name \in Names /\ locks[c][name] # None

----------------------------------------------------------------------------
(* client.py: acquire_lock *)

AcqIdle ==
    [name |-> "", no_wait |-> FALSE, params |-> NoParams, initial_time |-> 0,
     lock_timeout |-> 0, watching_lock |-> None, current_lock |-> None,
     created_lock |-> None, tried_one_time |-> FALSE, sleep |-> 0]

(* User code does not acquire a name it holds a valid lock on. *)
Holds(c, name) == InCache(c, name) /\ IsLockValid(c, locks[c][name])

AcquireLock(c, name, no_wait, params) ==
    /\ pc[c] = "idle"
    /\ ~Holds(c, name)
    /\ IF ~IsNameValid(name)
       THEN /\ Commit(Cur, Ev("acquire", c, name, "nil", 0))
            /\ UNCHANGED pc
       ELSE /\ Commit([Cur EXCEPT !.acq[c] =
                     [AcqIdle EXCEPT !.name = name, !.no_wait = no_wait,
                                     !.params = params,
                                     !.initial_time = Clock(c),
                                     !.lock_timeout = AcquireTimeout]],
                      Silent)
            /\ pc' = [pc EXCEPT ![c] = "loop"]
    /\ UNCHANGED <<now, wstop, join, wpc, wsleep>>

LoopCondition(c, a) ==
    \/ Clock(c) < a.initial_time + a.lock_timeout
    \/ (a.no_wait /\ a.tried_one_time)

(* The loop test and, when it passes, the get of the iteration. *)
AcquireLoop(c) ==
    /\ pc[c] = "loop"
    /\ acq[c].sleep = 0
    /\ IF LoopCondition(c, acq[c])
       THEN /\ Commit([Cur EXCEPT !.acq[c].current_lock =
                                      RetrieveEntry(c, acq[c].name)],
                      Silent)
            /\ pc' = [pc EXCEPT ![c] = "got"]
       ELSE /\ Commit([Cur EXCEPT !.acq[c] = AcqIdle],
                      Ev("acquire", c, acq[c].name, "nil", 0))
            /\ pc' = [pc EXCEPT ![c] = "idle"]
    /\ UNCHANGED <<now, wstop, join, wpc, wsleep>>

(* A faulty variant of AcquireCase: the branch of the rollover is left    *)
(* out.                                                                  *)
AcquireCaseWithoutRollover(c, a) ==
    LET cur == a.current_lock
        w   == a.watching_lock
    IN  IF cur = None THEN 1
        ELSE IF ~cur.is_locked THEN 2
        ELSE IF w # None /\ IsLockExpired(c, w) /\ w.version = cur.version
             THEN 3
        ELSE IF w = None THEN 4
        ELSE 0

(* The branch an iteration takes; 0 when it takes none. *)
AcquireCase(c, a) ==
    LET cur == a.current_lock
        w   == a.watching_lock
    IN  IF cur = None THEN 1
        ELSE IF ~cur.is_locked THEN 2
        ELSE IF w # None /\ IsLockExpired(c, w) /\ w.version = cur.version
             THEN 3
        ELSE IF w = None THEN 4
        ELSE IF w # None /\ w.version # cur.version THEN 5
        ELSE 0

(* A faulty variant of WithOwner: the owner is left out of the update. *)
WithoutOwner(c, params) == params

WithOwner(c, params) == [owner |-> Owner(c)] @@ params

TombstoneExpect == {"is_locked", "version", "name"}
TakeoverExpect  == {"version", "name"}

(* The store call of the branch. *)
AcquireWrite(c, a, case) ==
    IF case = 1 THEN CreateEntry(c, a.name, a.params)
    ELSE IF case = 2
         THEN UpdateEntry(c, a.current_lock, TombstoneExpect,
                          WithOwner(c, a.params))
    ELSE IF case = 3
         THEN UpdateEntry(c, a.current_lock, TakeoverExpect,
                          WithOwner(c, a.params))
    ELSE [ok |-> FALSE, row |-> Row(a.name), lock |-> None]

(* A faulty variant of FirstSight: the lock read is taken for the lock    *)
(* created.                                                              *)
FirstSightAdopts(a) ==
    [a EXCEPT !.lock_timeout = @ + a.current_lock.duration,
              !.created_lock = a.current_lock]

FirstSight(a) ==
    [a EXCEPT !.lock_timeout = @ + a.current_lock.duration,
              !.watching_lock = a.current_lock]

(* Faulty variants of Rollover: the deadline is extended again; the      *)
(* watched lock is not replaced.                                         *)
RolloverExtends(a) ==
    [a EXCEPT !.lock_timeout = @ + a.current_lock.duration,
              !.watching_lock = a.current_lock]

RolloverKeeps(a) == a

Rollover(a) == [a EXCEPT !.watching_lock = a.current_lock]

(* The local variables after the branch. *)
AfterBranch(c, a, case, r) ==
    IF case = 1 THEN [a EXCEPT !.created_lock = r.lock]
    ELSE IF case \in {2, 3}
         THEN [a EXCEPT !.created_lock = r.lock,
                        !.params = WithOwner(c, a.params)]
    ELSE IF case = 4 THEN FirstSight(a)
    ELSE IF case = 5 THEN Rollover(a)
    ELSE a

(* The local variables after the cleanup of an iteration that goes on. *)
AfterCleanup(b) ==
    IF ~b.no_wait
    THEN [b EXCEPT !.current_lock = None, !.sleep = RetryPeriod]
    ELSE [b EXCEPT !.current_lock = None, !.tried_one_time = TRUE]

(* The branch of the iteration and the cleanup after it. *)
AcquireBranch(c) ==
    /\ pc[c] = "got"
    /\ LET a    == acq[c]
           case == AcquireCase(c, a)
           r    == AcquireWrite(c, a, case)
           b    == AfterBranch(c, a, case, r)
       IN  IF b.created_lock # None
           THEN /\ Commit([Cur EXCEPT
                             !.store = StoreAfter(a.name, r),
                             !.locks = CacheWith(c, a.name, b.created_lock),
                             !.acq[c] = AcqIdle],
                          Ev("acquire", c, a.name, "lock", case))
                /\ pc' = [pc EXCEPT ![c] = "idle"]
           ELSE /\ Commit([Cur EXCEPT
                             !.store = StoreAfter(a.name, r),
                             !.acq[c] = AfterCleanup(b)],
                          Silent)
                /\ pc' = [pc EXCEPT ![c] = "loop"]
    /\ UNCHANGED <<now, wstop, join, wpc, wsleep>>

----------------------------------------------------------------------------
(* client.py: touch_lock and release_lock *)

(* What touch_lock does with lock: calls (store calls issued), ok, row and *)
(* lock (the new lock, or None).                                           *)
TouchResult(c, lock) ==
    IF ~IsLockValid(c, lock)
    THEN [calls |-> 0, ok |-> FALSE, row |-> Row(lock.name), lock |-> None]
    ELSE [calls |-> 1] @@ UpdateEntry(c, lock, DefaultExpect, NoParams)

(* A faulty variant of CacheAfterTouch: the new lock is not cached. *)
CacheAfterTouchKept(c, lock, t) == locks

CacheAfterTouch(c, lock, t) ==
    IF t.lock # None THEN CacheWith(c, lock.name, t.lock) ELSE locks

(* The update of a release that keeps the row: the caller's **params     *)
(* with is_locked set to false.                                           *)
ReleaseUpdateWith(params) == [is_locked |-> FALSE] @@ params

ReleaseUpdate == ReleaseUpdateWith(NoParams)

(* What release_lock does: calls, ok, row and ret, the value returned or   *)
(* the exception that escapes.                                             *)
ReleaseResultWith(c, lock, delete, params) ==
    IF ~IsLockValid(c, lock)
    THEN [calls |-> 0, ok |-> FALSE, row |-> Row(lock.name), ret |-> "false"]
    ELSE IF ~delete
    THEN LET u == UpdateEntry(c, lock, DefaultExpect,
                              ReleaseUpdateWith(params))
         IN  [calls |-> 1, ok |-> u.ok, row |-> u.row,
              ret |-> IF u.lock # None THEN "true" ELSE "false"]
    ELSE [calls |-> 1] @@ DeleteEntry(lock)

(* release_lock called with no keyword. *)
ReleaseResult(c, lock, delete) == ReleaseResultWith(c, lock, delete, NoParams)

(* A faulty variant of CacheAfterRelease: the entry is never evicted. *)
CacheKept(c, lock, r) == locks

CacheAfterRelease(c, lock, r) ==
    IF r.ret = "true" /\ InCache(c, lock.name)
    THEN CacheWith(c, lock.name, None)
    ELSE locks

(* The handle that a refresh replaced, where c's touch_lock or heartbeat   *)
(* has just refreshed lock l: valid as l is, with the version the refresh *)
(* took out of the store.                                                 *)
Refreshed(c, l) ==
    /\ ev.op \in {"touch", "heartbeat"}
    /\ ev.client = c /\ ev.name = l.name /\ ev.ret = "lock"

Stale(l) == [l EXCEPT !.version = 0]

(* The locks user code passes: the latest it was given for a name or the  *)
(* handle from before a refresh (HeldArgs); and, in the code of c1, a     *)
(* record built from the latest with one field changed.                   *)
HeldArgs(c) ==
    LET own == {locks[c][n] : n \in Names} \ {None}
    IN  own \cup {Stale(l) : l \in {k \in own : Refreshed(c, k)}}

LockArgs(c) ==
    LET own == {locks[c][n] : n \in Names} \ {None}
    IN  IF c # "c1" THEN HeldArgs(c)
        ELSE HeldArgs(c)
                 \cup {[l EXCEPT !.name = ""] : l \in own}
                 \cup {[l EXCEPT !.owner = "nobody"] : l \in own}
                 \cup {[l EXCEPT !.is_locked = FALSE] : l \in own}

DeleteArgs == {"nil", "true", "false"}

DeleteMode(d) == IF d = "nil" THEN DeleteLock ELSE d = "true"

TouchLock(c, lock) ==
    /\ pc[c] = "idle"
    /\ LET t == TouchResult(c, lock)
       IN  Commit([Cur EXCEPT !.store = StoreAfter(lock.name, t),
                              !.locks = CacheAfterTouch(c, lock, t)],
                  Ev("touch", c, lock.name,
                     IF t.lock # None THEN "lock" ELSE "nil", 0))
    /\ UNCHANGED <<now, wstop, join, pc, wpc, wsleep>>

ReleaseLockWith(c, lock, d, params) ==
    /\ pc[c] = "idle"
    /\ LET r == ReleaseResultWith(c, lock, DeleteMode(d), params)
       IN  Commit([Cur EXCEPT !.store = StoreAfter(lock.name, r),
                              !.locks = CacheAfterRelease(c, lock, r)],
                  Ev("release", c, lock.name, r.ret, 0))
    /\ UNCHANGED <<now, wstop, join, pc, wpc, wsleep>>

ReleaseLock(c, lock, d) == ReleaseLockWith(c, lock, d, NoParams)

(* release_lock in two steps, for what other clients do in between: the  *)
(* local check and the store call, with name the lock's name and ret what *)
(* the call yields (is_released, or the exception); then the cleanup,     *)
(* which evicts the name when the lock was released, and the return.      *)
RelIdle == [name |-> "", ret |-> ""]

ReleaseCall(c, lock, d) ==
    /\ pc[c] = "idle"
    /\ LET r == ReleaseResult(c, lock, DeleteMode(d))
       IN  Commit([Cur EXCEPT !.store = StoreAfter(lock.name, r),
                              !.rel[c] = [name |-> lock.name, ret |-> r.ret]],
                  Silent)
    /\ pc' = [pc EXCEPT ![c] = "releasing"]
    /\ UNCHANGED <<now, wstop, join, wpc, wsleep>>

ReleaseCleanup(c) ==
    /\ pc[c] = "releasing"
    /\ Commit([Cur EXCEPT
                 !.locks = IF rel[c].ret = "true" /\ InCache(c, rel[c].name)
                           THEN CacheWith(c, rel[c].name, None)
                           ELSE locks,
                 !.rel[c] = RelIdle],
              Ev("release", c, rel[c].name, rel[c].ret, 0))
    /\ pc' = [pc EXCEPT ![c] = "idle"]
    /\ UNCHANGED <<now, wstop, join, wpc, wsleep>>

(* The keywords a caller passes to release_lock: none, or the fields of  *)
(* the lock it releases that identify it.                                *)
ReleaseParamsArgs(lock) == {NoParams, [version |-> lock.version]}

----------------------------------------------------------------------------
(* client.py: retrieve_lock and does_lock_exist *)

NoVersion == 0     \* Python None as a version

(* A faulty variant of RetrieveResult: the version stays in the record. *)
RetrieveResultWithVersion(c, name) ==
    IF ~IsNameValid(name) THEN None
    ELSE LET cur == IF InCache(c, name) THEN locks[c][name]
                    ELSE RetrieveEntry(c, name)
         IN  IF cur = None THEN None
             ELSE IF ~cur.is_locked THEN None
             ELSE cur

(* The value retrieve_lock returns. *)
RetrieveResult(c, name) ==
    IF ~IsNameValid(name) THEN None
    ELSE LET cur == IF InCache(c, name) THEN locks[c][name]
                    ELSE RetrieveEntry(c, name)
         IN  IF cur = None THEN None
             ELSE IF ~Replace(cur, [version |-> NoVersion]).is_locked
                  THEN None
             ELSE Replace(cur, [version |-> NoVersion])

(* The event's ret is the lock returned. *)
RetrieveLock(c, name) ==
    /\ pc[c] = "idle"
    /\ Commit(Cur, Ev("retrieve", c, name, RetrieveResult(c, name), 0))
    /\ UNCHANGED <<now, wstop, join, pc, wpc, wsleep>>

DoesLockExist(c, name) ==
    /\ pc[c] = "idle"
    /\ Commit(Cur, Ev("exists", c, name,
                      IF RetrieveResult(c, name) # None THEN "true"
                      ELSE "false", 0))
    /\ UNCHANGED <<now, wstop, join, pc, wpc, wsleep>>

----------------------------------------------------------------------------
(* worker.py *)

Startup(c) ==
    /\ wpc[c] = "new"
    /\ wpc' = [wpc EXCEPT ![c] = "run"]
    /\ Commit(Cur, Silent)
    /\ UNCHANGED <<now, wstop, join, pc, wsleep>>

(* The values of the cache of c, as a list made of them holds them. *)
CacheValues(c) == {locks[c][n] : n \in Names} \ {None}

(* The loop test and, when the stop signal is not set, the start of a     *)
(* cycle: the snapshot of the cache's values.  The sleep at the end of    *)
(* the cycle lasts until period seconds after this start.                 *)
WorkerCycle(c) ==
    /\ wpc[c] = "run"
    /\ wtodo[c] = {}
    /\ wsleep[c] = 0
    /\ IF wstop[c]
       THEN /\ wpc' = [wpc EXCEPT ![c] = "done"]
            /\ Commit(Cur, Silent)
            /\ UNCHANGED wsleep
       ELSE /\ wsleep' = [wsleep EXCEPT ![c] = HeartbeatPeriod]
            /\ Commit([Cur EXCEPT !.wtodo[c] = CacheValues(c)], Silent)
            /\ UNCHANGED wpc
    /\ UNCHANGED <<now, wstop, join, pc>>

(* A faulty variant of CacheAfterWorkerTouch: the test of the touch is    *)
(* inverted, the entry goes when the touch succeeded.                     *)
CacheAfterWorkerTouchInverted(c, lock, t) ==
    IF t.lock = None THEN locks
    ELSE IF InCache(c, lock.name) THEN CacheWith(c, lock.name, None)
    ELSE locks

(* One entry of the snapshot: the touch of it and, when the touch fails,  *)
(* del self.locks[lock.name], whose KeyError ends the thread.             *)
CacheAfterWorkerTouch(c, lock, t) ==
    IF t.lock # None THEN CacheWith(c, lock.name, t.lock)
    ELSE IF InCache(c, lock.name) THEN CacheWith(c, lock.name, None)
    ELSE locks

WorkerTouch(c) ==
    /\ wpc[c] = "run"
    /\ \E lock \in wtodo[c] :
         LET t    == TouchResult(c, lock)
             dies == t.lock = None /\ ~InCache(c, lock.name)
         IN  /\ Commit([Cur EXCEPT
                          !.store = StoreAfter(lock.name, t),
                          !.locks = CacheAfterWorkerTouch(c, lock, t),
                          !.wtodo[c] = IF dies THEN {} ELSE @ \ {lock}],
                       Ev("heartbeat", c, lock.name,
                          IF t.lock # None THEN "lock"
                          ELSE IF dies THEN "KeyError" ELSE "nil", 0))
             /\ wpc' = [wpc EXCEPT ![c] = IF dies THEN "dead" ELSE "run"]
    /\ UNCHANGED <<now, wstop, join, pc, wsleep>>

----------------------------------------------------------------------------
(* worker.py: stop; client.py: shutdown and release_all_locks *)

(* Thread.is_alive: the thread was started and has not ended. *)
IsAlive(c) == wpc[c] = "run"

(* shutdown as far as the join: stop sets the signal and, when the worker *)
(* is alive, joins it for at most retry_period seconds.                   *)
Shutdown(c) ==
    /\ pc[c] = "idle"
    /\ wstop' = [wstop EXCEPT ![c] = TRUE]
    /\ join' = [join EXCEPT ![c] = IF IsAlive(c) THEN RetryPeriod ELSE 0]
    /\ pc' = [pc EXCEPT ![c] = "join"]
    /\ Commit(Cur, Silent)
    /\ UNCHANGED <<now, wpc, wsleep>>

(* The local state of a release_all_locks call: who called it, its delete *)
(* argument and the list of the results of release_lock so far.           *)
RallIdle == [by |-> "", delete |-> "nil", released |-> <<>>]

(* all(released) *)
All(released) == \A i \in DOMAIN released : released[i]

(* The join returns, the worker having ended or the timeout having        *)
(* elapsed, and release_all_locks takes the list of the cache's values.   *)
JoinReturns(c) ==
    /\ pc[c] = "join"
    /\ ~IsAlive(c) \/ join[c] = 0
    /\ join' = [join EXCEPT ![c] = 0]
    /\ pc' = [pc EXCEPT ![c] = "release_all"]
    /\ Commit([Cur EXCEPT !.rtodo[c] = CacheValues(c),
                          !.rall[c] = [RallIdle EXCEPT !.by = "shutdown"]],
              Silent)
    /\ UNCHANGED <<now, wpc, wsleep, wstop>>

(* release_all_locks called by user code: the list of the cache's values. *)
ReleaseAllLocks(c, d) ==
    /\ pc[c] = "idle"
    /\ pc' = [pc EXCEPT ![c] = "release_all"]
    /\ Commit([Cur EXCEPT !.rtodo[c] = CacheValues(c),
                          !.rall[c] = [RallIdle EXCEPT !.by = "release_all",
                                                       !.delete = d]],
              Silent)
    /\ UNCHANGED <<now, wpc, wsleep, wstop, join>>

(* release_all_locks: release_lock of the next lock of the list with the  *)
(* delete argument, an exception of which ends the call (and shutdown);   *)
(* after the last, all(released) is returned, which shutdown drops.       *)
ReleaseAll(c) ==
    /\ pc[c] = "release_all"
    /\ IF rtodo[c] = {}
       THEN /\ Commit([Cur EXCEPT !.rall[c] = RallIdle],
                      IF rall[c].by = "shutdown"
                      THEN Ev("shutdown", c, "", "nil", 0)
                      ELSE Ev("release_all", c, "",
                              IF All(rall[c].released) THEN "true"
                              ELSE "false", 0))
            /\ pc' = [pc EXCEPT ![c] = "idle"]
       ELSE \E lock \in rtodo[c] :
              LET r      == ReleaseResult(c, lock, DeleteMode(rall[c].delete))
                  raised == r.ret \notin {"true", "false"}
              IN  /\ Commit([Cur EXCEPT
                               !.store = StoreAfter(lock.name, r),
                               !.locks = CacheAfterRelease(c, lock, r),
                               !.rtodo[c] = IF raised THEN {} ELSE @ \ {lock},
                               !.rall[c] =
                                  IF raised THEN RallIdle
                                  ELSE [@ EXCEPT !.released =
                                           Append(@, r.ret = "true")]],
                            Ev("release", c, lock.name, r.ret, 0))
                  /\ pc' = [pc EXCEPT ![c] = IF raised THEN "idle"
                                             ELSE "release_all"]
    /\ UNCHANGED <<now, wpc, wsleep, wstop, join>>

----------------------------------------------------------------------------
(* Transport failures: a call of the table raises JSONResponseError and   *)
(* leaves the table as it is.  _create_entry catches it; _retrieve_entry, *)
(* _update_entry and _delete_entry catch ItemNotFound or                  *)
(* ConditionalCheckFailedException only, so there it escapes to the       *)
(* caller of the public method.                                           *)

TransportError == "JSONResponseError"

(* The get of an iteration fails. *)
AcquireLoopFails(c) ==
    /\ pc[c] = "loop"
    /\ acq[c].sleep = 0
    /\ LoopCondition(c, acq[c])
    /\ Commit([Cur EXCEPT !.acq[c] = AcqIdle],
              Ev("acquire", c, acq[c].name, TransportError, 0))
    /\ pc' = [pc EXCEPT ![c] = "idle"]
    /\ UNCHANGED <<now, wstop, join, wpc, wsleep>>

(* The write of an iteration fails: the put of branch 1 yields no lock    *)
(* and the iteration ends with the cleanup; the update of branches 2 and  *)
(* 3 raises.                                                              *)
AcquireBranchFails(c) ==
    /\ pc[c] = "got"
    /\ AcquireCase(c, acq[c]) \in {1, 2, 3}
    /\ IF AcquireCase(c, acq[c]) = 1
       THEN /\ Commit([Cur EXCEPT !.acq[c] = AfterCleanup(acq[c])], Silent)
            /\ pc' = [pc EXCEPT ![c] = "loop"]
       ELSE /\ Commit([Cur EXCEPT !.acq[c] = AcqIdle],
                      Ev("acquire", c, acq[c].name, TransportError, 0))
            /\ pc' = [pc EXCEPT ![c] = "idle"]
    /\ UNCHANGED <<now, wstop, join, wpc, wsleep>>

(* The update of touch_lock fails. *)
TouchLockFails(c, lock) ==
    /\ pc[c] = "idle"
    /\ IsLockValid(c, lock)
    /\ Commit(Cur, Ev("touch", c, lock.name, TransportError, 0))
    /\ UNCHANGED <<now, wstop, join, pc, wpc, wsleep>>

(* The update or the delete of release_lock fails. *)
ReleaseLockFails(c, lock, d) ==
    /\ pc[c] = "idle"
    /\ IsLockValid(c, lock)
    /\ Commit(Cur, Ev("release", c, lock.name, TransportError, 0))
    /\ UNCHANGED <<now, wstop, join, pc, wpc, wsleep>>

(* The update of a touch of the worker fails: the exception leaves run.   *)
WorkerTouchFails(c) ==
    /\ wpc[c] = "run"
    /\ \E lock \in wtodo[c] :
         /\ IsLockValid(c, lock)
         /\ Commit([Cur EXCEPT !.wtodo[c] = {}],
                   Ev("heartbeat", c, lock.name, TransportError, 0))
    /\ wpc' = [wpc EXCEPT ![c] = "dead"]
    /\ UNCHANGED <<now, wstop, join, pc, wsleep>>

----------------------------------------------------------------------------
(* Time *)

Elapse(seconds) == IF seconds > 0 THEN seconds - 1 ELSE 0

(* One second passes on every clock, up to the horizon. *)
TickUntil(horizon) ==
    /\ now < horizon
    /\ now' = now + 1
    /\ wsleep' = [c \in Clients |-> Elapse(wsleep[c])]
    /\ join' = [c \in Clients |-> Elapse(join[c])]
    /\ Commit([Cur EXCEPT
                 !.acq = [c \in Clients |->
                            [acq[c] EXCEPT !.sleep = Elapse(@)]]],
              Silent)
    /\ UNCHANGED <<pc, wpc, wstop>>

Tick == TickUntil(MaxTime)

----------------------------------------------------------------------------
Init ==
    /\ now = 0
    /\ store = [n \in Names |-> NoRow]
    /\ locks = [c \in Clients |-> [n \in Names |-> None]]
    /\ pc = [c \in Clients |-> "idle"]
    /\ acq = [c \in Clients |-> AcqIdle]
    /\ wpc = [c \in Clients |-> "new"]
    /\ wtodo = [c \in Clients |-> {}]
    /\ wsleep = [c \in Clients |-> 0]
    /\ wstop = [c \in Clients |-> FALSE]
    /\ join = [c \in Clients |-> 0]
    /\ rtodo = [c \in Clients |-> {}]
    /\ rall = [c \in Clients |-> RallIdle]
    /\ rel = [c \in Clients |-> RelIdle]
    /\ ev = Silent

(* The names user code asks for: a name the policy accepts and one it     *)
(* rejects.                                                               *)
NameArgs == {"job", ""}

(* The user threads of the clients; no worker is started. *)
Next ==
    \/ \E c \in Clients, name \in NameArgs :
          \E no_wait \in NoWaitArgs(c), params \in ParamsArgs(c) :
             AcquireLock(c, name, no_wait, params)
    \/ \E c \in Clients : AcquireLoop(c)
    \/ \E c \in Clients : AcquireBranch(c)
    \/ \E c \in Clients : \E lock \in LockArgs(c) : TouchLock(c, lock)
    \/ \E c \in Clients : \E lock \in LockArgs(c), d \in DeleteArgs :
          ReleaseLock(c, lock, d)
    \/ Tick

Spec == Init /\ [][Next]_vars

----------------------------------------------------------------------------
(* The user threads of both clients and the heartbeat worker of c1.  User *)
(* code asks for one name and passes the locks it was given.              *)

NextWorker ==
    \/ \E c \in Clients : \E params \in ParamsArgs(c) :
          AcquireLock(c, "job", FALSE, params)
    \/ \E c \in Clients : AcquireLoop(c)
    \/ \E c \in Clients : AcquireBranch(c)
    \/ \E c \in Clients : \E lock \in HeldArgs(c) : TouchLock(c, lock)
    \/ \E c \in Clients : \E lock \in HeldArgs(c), d \in DeleteArgs :
          ReleaseLock(c, lock, d)
    \/ \E c \in Workers : Startup(c)
    \/ \E c \in Workers : WorkerCycle(c)
    \/ \E c \in Workers : WorkerTouch(c)
    \/ Tick

SpecWorker == Init /\ [][NextWorker]_vars

----------------------------------------------------------------------------
(* A client that acquires two names, runs its heartbeat worker and shuts  *)
(* down.                                                                  *)

NextShutdown ==
    \/ \E c \in Workers : \E name \in Names, params \in ParamsArgs(c) :
          AcquireLock(c, name, FALSE, params)
    \/ \E c \in Workers : AcquireLoop(c)
    \/ \E c \in Workers : AcquireBranch(c)
    \/ \E c \in Workers : Startup(c)
    \/ \E c \in Workers : WorkerCycle(c)
    \/ \E c \in Workers : WorkerTouch(c)
    \/ \E c \in Workers : Shutdown(c)
    \/ \E c \in Workers : JoinReturns(c)
    \/ \E c \in Workers : ReleaseAll(c)
    \/ Tick

SpecShutdown == Init /\ [][NextShutdown]_vars

----------------------------------------------------------------------------
(* A client that acquires two names, runs its heartbeat worker and calls  *)
(* release_all_locks.                                                     *)

(* User code calls release_all_locks() and release_all_locks(delete=False). *)
ReleaseAllArgs == {"nil", "false"}

NextReleaseAll ==
    \/ \E c \in Workers : \E name \in Names, params \in ParamsArgs(c) :
          AcquireLock(c, name, FALSE, params)
    \/ \E c \in Workers : AcquireLoop(c)
    \/ \E c \in Workers : AcquireBranch(c)
    \/ \E c \in Workers : Startup(c)
    \/ \E c \in Workers : WorkerCycle(c)
    \/ \E c \in Workers : WorkerTouch(c)
    \/ \E c \in Workers, d \in ReleaseAllArgs : ReleaseAllLocks(c, d)
    \/ \E c \in Workers : ReleaseAll(c)
    \/ Tick

SpecReleaseAll == Init /\ [][NextReleaseAll]_vars

----------------------------------------------------------------------------
(* A client with its heartbeat worker on a table whose calls may fail.    *)

NextTransport ==
    \/ \E c \in Workers : \E params \in ParamsArgs(c) :
          AcquireLock(c, "job", FALSE, params)
    \/ \E c \in Workers : AcquireLoop(c)
    \/ \E c \in Workers : AcquireBranch(c)
    \/ \E c \in Workers : \E lock \in HeldArgs(c) : TouchLock(c, lock)
    \/ \E c \in Workers : \E lock \in HeldArgs(c), d \in DeleteArgs :
          ReleaseLock(c, lock, d)
    \/ \E c \in Workers : Startup(c)
    \/ \E c \in Workers : WorkerCycle(c)
    \/ \E c \in Workers : WorkerTouch(c)
    \/ \E c \in Workers : AcquireLoopFails(c)
    \/ \E c \in Workers : AcquireBranchFails(c)
    \/ \E c \in Workers : \E lock \in HeldArgs(c) : TouchLockFails(c, lock)
    \/ \E c \in Workers : \E lock \in HeldArgs(c), d \in DeleteArgs :
          ReleaseLockFails(c, lock, d)
    \/ \E c \in Workers : WorkerTouchFails(c)
    \/ Tick

SpecTransport == Init /\ [][NextTransport]_vars

----------------------------------------------------------------------------
(* The user threads of both clients with the observer methods, and with   *)
(* keywords passed to release_lock.                                       *)

NextCaller ==
    \/ \E c \in Clients : \E params \in ParamsArgs(c) :
          AcquireLock(c, "job", FALSE, params)
    \/ \E c \in Clients : AcquireLoop(c)
    \/ \E c \in Clients : AcquireBranch(c)
    \/ \E c \in Clients : \E lock \in HeldArgs(c) : TouchLock(c, lock)
    \/ \E c \in Clients : \E lock \in HeldArgs(c), d \in DeleteArgs :
          \E params \in ReleaseParamsArgs(lock) :
             ReleaseLockWith(c, lock, d, params)
    \/ \E c \in Clients, name \in NameArgs : RetrieveLock(c, name)
    \/ \E c \in Clients, name \in NameArgs : DoesLockExist(c, name)
    \/ Tick

SpecCaller == Init /\ [][NextCaller]_vars

----------------------------------------------------------------------------
(* The user threads of both clients, with keywords passed to acquire_lock *)
(* that name a field of the lock.                                         *)

AcquireKeywordArgs == {NoParams, [timestamp |-> 0]}

NextKeywords ==
    \/ \E c \in Clients : \E params \in AcquireKeywordArgs :
          AcquireLock(c, "job", FALSE, params)
    \/ \E c \in Clients : AcquireLoop(c)
    \/ \E c \in Clients : AcquireBranch(c)
    \/ \E c \in Clients : \E lock \in HeldArgs(c) : TouchLock(c, lock)
    \/ \E c \in Clients : \E lock \in HeldArgs(c), d \in DeleteArgs :
          ReleaseLock(c, lock, d)
    \/ Tick

SpecKeywords == Init /\ [][NextKeywords]_vars

----------------------------------------------------------------------------
(* Create, takeover and heartbeat: the user threads of both clients and   *)
(* the worker of c1, where every release deletes the row.                 *)

DeletingArgs == {"nil", "true"}

(* A lease that is no multiple of the retry period: a call that waits for *)
(* it runs an iteration between its expiry and the call's deadline.       *)
OddLeaseParams == [duration |-> LockDuration + 500]

(* c1 asks for such a lease. *)
CoreParamsArgs(c) == IF c \in Workers THEN {OddLeaseParams} ELSE {NoParams}

(* The clock of this scenario runs long enough for a lease that the       *)
(* worker renewed to expire.                                              *)
CoreHorizon == MaxTime + HeartbeatPeriod

NextCore ==
    \/ \E c \in Clients : \E params \in CoreParamsArgs(c) :
          AcquireLock(c, "job", FALSE, params)
    \/ \E c \in Clients : AcquireLoop(c)
    \/ \E c \in Clients : AcquireBranch(c)
    \/ \E c \in Clients : \E lock \in HeldArgs(c) : TouchLock(c, lock)
    \/ \E c \in Clients : \E lock \in HeldArgs(c), d \in DeletingArgs :
          ReleaseCall(c, lock, d)
    \/ \E c \in Clients : ReleaseCleanup(c)
    \/ \E c \in Workers : Startup(c)
    \/ \E c \in Workers : WorkerCycle(c)
    \/ \E c \in Workers : WorkerTouch(c)
    \/ TickUntil(CoreHorizon)

SpecCore == Init /\ [][NextCore]_vars

----------------------------------------------------------------------------
(* Properties *)

(* A version of the state after a step that no token of the state before  *)
(* it became.                                                             *)
IsNew(v) == v \notin {RenV(u, ev'.dropped) : u \in UsedIn(Cur)}

(* The store and the caches as a step found them, in the tokens of the    *)
(* state after it.                                                        *)
StoreBefore == RenStore(store, ev'.dropped)
LocksBefore == RenLocks(locks, ev'.dropped)

(* Client c has a cached lock for name n that agrees with the store in    *)
(* owner and version and has not expired by c's clock.                    *)
Believes(c, n) ==
    /\ locks[c][n] # None
    /\ store[n] # NoRow
    /\ locks[c][n].owner = store[n].O
    /\ locks[c][n].version = store[n].V
    /\ IsLockActive(c, locks[c][n])

(* C1: mutual exclusion.  In every reachable state and for every name at  *)
(* most one client has a cached lock whose (owner, version) is the        *)
(* store's and whose lease has not expired by that client's clock.        *)
MutualExclusion ==
    \A n \in Names : Cardinality({c \in Clients : Believes(c, n)}) <= 1

(* A client has just taken the lock over from another, which still has    *)
(* its lock cached.                                                       *)
MutualExclusionWitness ==
    /\ ev.op = "acquire" /\ ev.ret = "lock" /\ ev.branch = 3
    /\ \E n \in Names :
         /\ Believes(ev.client, n)
         /\ \E d \in Clients \ {ev.client} : locks[d][n] # None

(* C2: try_acquire_lock runs one iteration: no get is issued once an      *)
(* iteration of a no_wait call has failed.                                *)
TryAcquireOneGet ==
    \A c \in Clients : pc[c] = "got" => ~acq[c].tried_one_time

(* C3: an acquire through the tombstone branch whose conditional update   *)
(* succeeds leaves the row with this client as owner, a new version and   *)
(* is_locked true, and caches a lock with is_locked true.                 *)
TombstoneAcquireLocks ==
    [][\A c \in Clients :
         (/\ pc[c] = "got"
          /\ AcquireCase(c, acq[c]) = 2
          /\ AcquireWrite(c, acq[c], 2).ok
          /\ AcquireBranch(c))
         => /\ store'[acq[c].name].O = Owner(c)
            /\ IsNew(store'[acq[c].name].V)
            /\ store'[acq[c].name].L
            /\ locks'[c][acq[c].name] # None
            /\ locks'[c][acq[c].name].is_locked]_vars

(* The lock a release was called with is valid by the client's clock and  *)
(* the row of its name has, or has not, its version.                      *)
SameVersion(lock) ==
    Row(lock.name) # NoRow /\ Row(lock.name).V = lock.version

OtherVersion(lock) ==
    Row(lock.name) # NoRow /\ Row(lock.name).V # lock.version

(* C4: release_lock of a locally valid lock whose version is the store's  *)
(* returns true and evicts the name from the cache; with delete the row   *)
(* is absent afterwards, without it the row stays with is_locked false    *)
(* and a new version.                                                     *)
ReleaseSucceeds ==
    [][\A c \in Clients : \A lock \in LockArgs(c), d \in DeleteArgs :
         (/\ ev'.op = "release" /\ ev'.client = c
          /\ IsLockValid(c, lock)
          /\ SameVersion(lock)
          /\ ReleaseLock(c, lock, d))
         => /\ ev'.ret = "true"
            /\ locks'[c][lock.name] = None
            /\ IF DeleteMode(d)
               THEN store'[lock.name] = NoRow
               ELSE /\ store'[lock.name] # NoRow
                    /\ ~store'[lock.name].L
                    /\ IsNew(store'[lock.name].V)]_vars

(* A release that kept the row has just returned true. *)
ReleaseSucceedsWitness ==
    /\ ev.op = "release" /\ ev.ret = "true"
    /\ \E n \in Names :
         /\ store[n] # NoRow /\ ~store[n].L
         /\ locks[ev.client][n] = None

(* C5: release_lock of a locally valid lock whose version is not the      *)
(* store's returns false, with and without delete, and changes neither    *)
(* the store nor the cache.                                               *)
StaleReleaseReturnsFalse ==
    [][\A c \in Clients : \A lock \in LockArgs(c), d \in DeleteArgs :
         (/\ ev'.op = "release" /\ ev'.client = c
          /\ IsLockValid(c, lock)
          /\ OtherVersion(lock)
          /\ ReleaseLock(c, lock, d))
         => /\ ev'.ret = "false"
            /\ store' = StoreBefore
            /\ locks' = LocksBefore]_vars

(* The four local checks of the contract, the name check on the name. *)
FailsLocalCheck(c, lock) ==
    \/ lock.owner # Owner(c)
    \/ ~lock.is_locked
    \/ ~IsNameValid(lock.name)
    \/ IsLockExpired(c, lock)

(* C6: with a lock that fails one of the four local checks release_lock   *)
(* returns false and touch_lock nil, no call to the store is issued and   *)
(* the cache is unchanged.                                                *)
InvalidLockNoStoreCall ==
    [][\A c \in Clients : \A lock \in LockArgs(c) :
         (ev'.client = c /\ FailsLocalCheck(c, lock)) =>
            /\ (ev'.op = "touch" /\ TouchLock(c, lock)) =>
                  /\ ev'.ret = "nil"
                  /\ TouchResult(c, lock).calls = 0
                  /\ locks' = LocksBefore
            /\ \A d \in DeleteArgs :
                  (ev'.op = "release" /\ ReleaseLock(c, lock, d)) =>
                  /\ ev'.ret = "false"
                  /\ ReleaseResult(c, lock, DeleteMode(d)).calls = 0
                  /\ locks' = LocksBefore]_vars

Deadline(a) == a.initial_time + a.lock_timeout

(* C7: in an acquire_lock call with no_wait false the deadline starts at  *)
(* initial_time + acquire_timeout, grows by the duration of the lock the  *)
(* call starts to watch and by nothing else, and once the clock has       *)
(* reached it no iteration starts and the call returns nil.               *)
DeadlineExtendedOnce ==
    [][\A c \in Clients :
         /\ (pc[c] = "idle" /\ pc'[c] = "loop" /\ ~acq'[c].no_wait)
            => /\ acq'[c].initial_time = Clock(c)
               /\ acq'[c].lock_timeout = AcquireTimeout
               /\ acq'[c].watching_lock = None
         /\ (pc[c] # "idle" /\ pc'[c] # "idle" /\ ~acq[c].no_wait)
            => /\ acq'[c].initial_time = acq[c].initial_time
               /\ IF acq[c].watching_lock = None
                     /\ acq'[c].watching_lock # None
                  THEN acq'[c].lock_timeout =
                          acq[c].lock_timeout + acq'[c].watching_lock.duration
                  ELSE acq'[c].lock_timeout = acq[c].lock_timeout
         /\ (/\ pc[c] = "loop" /\ ~acq[c].no_wait
             /\ Clock(c) >= Deadline(acq[c]))
            => /\ pc'[c] # "got"
               /\ AcquireLoop(c) =>
                     /\ pc'[c] = "idle"
                     /\ ev'.op = "acquire" /\ ev'.client = c
                     /\ ev'.ret = "nil"]_vars

(* A call that extended its deadline when it started to watch a lock, and *)
(* has replaced the lock it watches since, has reached the deadline.  The *)
(* first get of a call is issued in the second the call starts, so a lock *)
(* read later is not the first it watched.                                *)
DeadlineExtendedOnceWitness ==
    \E c \in Clients :
        /\ pc[c] = "loop" /\ ~acq[c].no_wait
        /\ acq[c].watching_lock # None
        /\ acq[c].watching_lock.timestamp > acq[c].initial_time
        /\ acq[c].lock_timeout = AcquireTimeout + acq[c].watching_lock.duration
        /\ Clock(c) >= Deadline(acq[c])

----------------------------------------------------------------------------
(* A holder that keeps its lease refreshed, and a contender.              *)

Holder    == "c1"
Contender == "c2"

(* The holder asks for a lease longer than its worker's period. *)
HolderParams == [duration |-> Millis(HeartbeatPeriod + 1)]

(* The clock of this scenario runs long enough for a call of the          *)
(* contender to reach its deadline.                                       *)
RolloverHorizon == MaxTime + RetryPeriod + HeartbeatPeriod

(* Every live row is in the cache of its owner with the same version, and *)
(* a second from now less than its duration will have passed since the    *)
(* owner wrote it.                                                        *)
LeasesRefreshed ==
    \A n \in Names :
        (store[n] # NoRow /\ store[n].L) =>
            \E c \in Clients :
                /\ Owner(c) = store[n].O
                /\ locks[c][n] # None
                /\ locks[c][n].version = store[n].V
                /\ Clock(c) + Millis(1) - locks[c][n].timestamp
                      < locks[c][n].duration

TickRefreshed == LeasesRefreshed /\ TickUntil(RolloverHorizon)

HolderAcquires ==
    \E n \in Names \cap NameArgs : AcquireLock(Holder, n, FALSE, HolderParams)

(* The contender calls acquire_lock for a name the holder has locked,     *)
(* early enough for the deadline to fall within the horizon.              *)
ContenderAcquires ==
    \E n \in Names \cap NameArgs :
        /\ store[n] # NoRow /\ store[n].L /\ store[n].O = Owner(Holder)
        /\ Millis(now) + AcquireTimeout + store[n].D <= Millis(RolloverHorizon)
        /\ AcquireLock(Contender, n, FALSE, NoParams)

NextRollover ==
    \/ HolderAcquires
    \/ ContenderAcquires
    \/ \E c \in Clients : AcquireLoop(c)
    \/ \E c \in Clients : AcquireBranch(c)
    \/ Startup(Holder)
    \/ WorkerCycle(Holder)
    \/ WorkerTouch(Holder)
    \/ TickRefreshed

(* Every thread that can take a step takes one, and time passes. *)
FairRollover ==
    /\ \A c \in Clients : WF_vars(AcquireLoop(c)) /\ WF_vars(AcquireBranch(c))
    /\ WF_vars(Startup(Holder))
    /\ WF_vars(WorkerCycle(Holder))
    /\ WF_vars(WorkerTouch(Holder))
    /\ WF_vars(TickRefreshed)

SpecRollover == Init /\ [][NextRollover]_vars /\ FairRollover

TakeoverAfterExpiry ==
    [][\A c \in Clients :
         LET a == acq[c]
             n == acq[c].name
         IN  (/\ pc[c] = "got"
              /\ a.watching_lock # None
              /\ a.watching_lock.owner # Owner(c)
              /\ IsLockExpired(c, a.watching_lock)
              /\ a.current_lock # None
              /\ a.current_lock.version = a.watching_lock.version
              /\ AcquireBranch(c))
             => IF Matches(Row(n), ToSchema([version |-> a.current_lock.version,
                                             name |-> n]))
                THEN /\ ev'.op = "acquire" /\ ev'.client = c
                     /\ ev'.ret = "lock"
                     /\ pc'[c] = "idle"
                     /\ locks'[c][n] # None
                     /\ locks'[c][n].owner = Owner(c)
                     /\ locks'[c][n].is_locked
                     /\ IsNew(locks'[c][n].version)
                     /\ store'[n].O = Owner(c)
                     /\ store'[n].V = locks'[c][n].version
                     /\ store'[n].L
                ELSE /\ pc'[c] = "loop"
                     /\ store' = StoreBefore
                     /\ locks' = LocksBefore]_vars

(* A takeover has just succeeded. *)
TakeoverAfterExpiryWitness ==
    /\ ev.op = "acquire" /\ ev.ret = "lock" /\ ev.branch = 3
    /\ \E n \in Names :
         /\ locks[ev.client][n] # None
         /\ store[n] # NoRow
         /\ store[n].V = locks[ev.client][n].version

(* C10: every lock put into a client's cache, by a branch of acquire_lock *)
(* or by touch_lock, has that client as owner and is_locked true.         *)
CacheInsertion ==
    [][\A c \in Clients, n \in Names :
         (locks'[c][n] # None /\ locks'[c][n] # LocksBefore[c][n])
         => /\ locks'[c][n].owner = Owner(c)
            /\ locks'[c][n].is_locked]_vars

----------------------------------------------------------------------------
(* The cache under the heartbeat worker *)

(* The step is the return of a successful acquire_lock or touch_lock of   *)
(* client c for name n (the worker's touch included), or of a successful  *)
(* release_lock.                                                          *)
Obtained(c, n) ==
    /\ ev'.op \in {"acquire", "touch", "heartbeat"}
    /\ ev'.client = c /\ ev'.name = n /\ ev'.ret = "lock"

Released(c, n) ==
    /\ ev'.op = "release"
    /\ ev'.client = c /\ ev'.name = n /\ ev'.ret = "true"

(* The step is a touch of the worker of c for name n that failed. *)
HeartbeatFailed(c, n) ==
    /\ ev'.op = "heartbeat"
    /\ ev'.client = c /\ ev'.name = n /\ ev'.ret \in {"nil", "KeyError"}

(* The record of name n in the worker's snapshot. *)
Snapshot(c, n) == CHOOSE l \in wtodo[c] : l.name = n

(* C11: a name is in a client's cache iff the client's last successful    *)
(* operation for it was an acquire or a touch and not a release.  The     *)
(* cache is empty at first, so this says of every step: a successful      *)
(* acquire or touch leaves the name in the cache, a successful release    *)
(* leaves it out, and no other step changes whether it is in the cache.   *)
CacheConsistency ==
    [][\A c \in Clients, n \in Names :
         IF Obtained(c, n) THEN locks'[c][n] # None
         ELSE IF Released(c, n) THEN locks'[c][n] = None
         ELSE (locks'[c][n] = None) <=> (locks[c][n] = None)]_vars

(* C11 as amended: the same, but that a failed touch of the worker also   *)
(* takes the name out of the cache.                                       *)
CacheConsistencyOrEvicted ==
    [][\A c \in Clients, n \in Names :
         IF Obtained(c, n) THEN locks'[c][n] # None
         ELSE IF Released(c, n) \/ HeartbeatFailed(c, n)
              THEN locks'[c][n] = None
         ELSE (locks'[c][n] = None) <=> (locks[c][n] = None)]_vars

(* The worker has just evicted a name whose row another client took over. *)
CacheConsistencyOrEvictedWitness ==
    /\ ev.op = "heartbeat" /\ ev.ret = "nil"
    /\ locks[ev.client]["job"] = None
    /\ store["job"] # NoRow
    /\ store["job"].O # Owner(ev.client)

(* C12: when the worker evicts a name after the touch of its snapshot     *)
(* record failed, a cache entry that is not the record of the snapshot    *)
(* (one a user thread put there since) stays as it is.                    *)
EvictionKeepsNewer ==
    [][\A c \in Workers, n \in Names :
         (/\ HeartbeatFailed(c, n)
          /\ locks[c][n] # None
          /\ locks[c][n] # Snapshot(c, n))
         => locks'[c][n] = LocksBefore[c][n]]_vars

(* C13: when the touch of a snapshot record fails and a user thread has   *)
(* taken the name out of the cache since the snapshot, the worker leaves  *)
(* the cache as it is and goes on; and a worker that has ended was told   *)
(* to stop.                                                               *)
EvictionSurvivesRemoval ==
    /\ [][\A c \in Workers, n \in Names :
            (HeartbeatFailed(c, n) /\ locks[c][n] = None)
            => (wpc'[c] = "run" /\ locks' = LocksBefore)]_vars
    /\ [](\A c \in Workers : wpc[c] \in {"done", "dead"} => wstop[c])

(* C15: the worker's touch of a snapshot record whose version is not the  *)
(* store's fails, leaves the name out of the cache and writes nothing; and *)
(* no step of the worker starts an acquire, nor writes a row that has not *)
(* this client as owner and the version of the snapshot record.           *)
HeartbeatLossEvicts ==
    [][\A c \in Workers, n \in Names :
         (ev'.op = "heartbeat" /\ ev'.client = c /\ ev'.name = n) =>
            /\ ~SameVersion(Snapshot(c, n)) =>
                  /\ ev'.ret # "lock"
                  /\ locks'[c][n] = None
                  /\ store' = StoreBefore
            /\ store' # StoreBefore =>
                  /\ store[n].O = Owner(c) /\ store'[n].O = Owner(c)
                  /\ store[n].V = Snapshot(c, n).version
            /\ pc' = pc
            /\ acq' = RenAcq(acq, ev'.dropped)]_vars

(* The worker's touch has just failed on a lock that another client took  *)
(* over, and the name is out of the cache.                                *)
HeartbeatLossEvictsWitness ==
    /\ ev.op = "heartbeat" /\ ev.client \in Workers /\ ev.ret = "nil"
    /\ ev.name \in Names
    /\ store[ev.name] # NoRow
    /\ store[ev.name].O # Owner(ev.client)
    /\ store[ev.name].L
    /\ locks[ev.client][ev.name] = None
----------------------------------------------------------------------------
(* Stop and shutdown *)

(* C14: once the stop signal is set the worker issues no further write:   *)
(* the signal is tested between the touches of a cycle, so when the       *)
(* signal is set and a touch of the worker has just returned (no call of  *)
(* the worker is in flight) the worker's next step is no write.           *)
NoWriteAfterStop ==
    [][\A c \in Workers :
         (/\ wstop[c]
          /\ ev.op = "heartbeat" /\ ev.client = c
          /\ ev'.op = "heartbeat" /\ ev'.client = c)
         => ev'.ret # "lock"]_vars

(* C18: shutdown ends by returning, and then no name is left that the     *)
(* client has in its cache with the store's owner and version and an      *)
(* unexpired lease: a lock that was cached and valid when shutdown was    *)
(* called and that nobody took over has been released and evicted.        *)
ShutdownReleasesHeld ==
    [][\A c \in Clients :
         (pc[c] = "release_all" /\ pc'[c] = "idle")
         => /\ ev'.op = "shutdown"
            /\ \A n \in Names : ~Believes(c, n)']_vars
----------------------------------------------------------------------------
(* Transport failures *)

(* C16: when the store call of a touch of the worker fails in transport   *)
(* the touch yields nil and the worker is running afterwards.             *)
TransportKeepsWorker ==
    [][\A c \in Workers :
         (ev'.op = "heartbeat" /\ ev'.client = c /\ WorkerTouchFails(c))
         => (ev'.ret = "nil" /\ wpc'[c] = "run")]_vars

(* C17: a store call that fails in transport inside acquire_lock loses    *)
(* the attempt and the loop goes on; inside release_lock it yields false  *)
(* and inside touch_lock nil; the cache is as it was.                     *)
TransportFailuresAreValues ==
    [][\A c \in Clients :
         /\ (AcquireLoopFails(c) \/ AcquireBranchFails(c))
            => (pc'[c] = "loop" /\ locks' = LocksBefore)
         /\ \A lock \in HeldArgs(c) :
              /\ TouchLockFails(c, lock)
                 => (ev'.ret = "nil" /\ locks' = LocksBefore)
              /\ \A d \in DeleteArgs :
                   ReleaseLockFails(c, lock, d)
                   => (ev'.ret = "false" /\ locks' = LocksBefore)]_vars
----------------------------------------------------------------------------
(* Versions *)

(* C19: every write that leaves a row stores a version that no token in   *)
(* use before the write is: create, touch, release that keeps the row,    *)
(* tombstone overwrite and takeover.                                      *)
VersionMonotonic ==
    [][\A n \in Names :
         (store'[n] # NoRow /\ store'[n] # StoreBefore[n])
         => IsNew(store'[n].V)]_vars

(* The record retrieve_lock reads for name n: the cache entry when there  *)
(* is one, else the row.                                                  *)
Found(c, n) == n \in Names /\ (locks[c][n] # None \/ store[n] # NoRow)

FoundLocked(c, n) ==
    /\ Found(c, n)
    /\ IF locks[c][n] # None THEN locks[c][n].is_locked ELSE store[n].L

(* C20: retrieve_lock returns nil when it finds no record or one with     *)
(* is_locked false; else the cache entry, or without one the row, with    *)
(* no version in it.  does_lock_exist returns whether it is not nil.      *)
ObserverSnapshot ==
    /\ ev.op = "retrieve" =>
          IF ~FoundLocked(ev.client, ev.name) THEN ev.ret = None
          ELSE /\ ev.ret # None
               /\ ev.ret.version \notin UsedIn(Cur)
               /\ ev.ret.name = ev.name
               /\ ev.ret.is_locked
               /\ IF locks[ev.client][ev.name] # None
                  THEN \A k \in LockFields \ {"version"} :
                          ev.ret[k] = locks[ev.client][ev.name][k]
                  ELSE /\ ev.ret.owner = store[ev.name].O
                       /\ ev.ret.duration = store[ev.name].D
                       /\ ev.ret.timestamp = Clock(ev.client)
    /\ ev.op = "exists" =>
          /\ ev.ret \in {"true", "false"}
          /\ ev.ret = "true" <=> FoundLocked(ev.client, ev.name)

(* retrieve_lock has just returned the record of a lock of another       *)
(* client, read from the table.                                          *)
ObserverSnapshotWitness ==
    /\ ev.op = "retrieve" /\ ev.ret # None
    /\ locks[ev.client][ev.name] = None
    /\ store[ev.name].O # Owner(ev.client)

----------------------------------------------------------------------------
(* release_all_locks *)

(* C21: release_all_locks does not short-circuit.  Every step of a call   *)
(* that has locks left releases one of them, adds what that release       *)
(* returned to the results and goes on, also when the release failed; and *)
(* the call ends, with no lock left, by returning whether every result is *)
(* true.                                                                  *)
ReleaseAllComplete ==
    [][\A c \in Clients :
         (pc[c] = "release_all" /\ rall[c].by = "release_all"
          /\ ReleaseAll(c))
         => IF rtodo[c] # {}
            THEN /\ pc'[c] = "release_all"
                 /\ ev'.op = "release" /\ ev'.ret \in {"true", "false"}
                 /\ Cardinality(rtodo'[c]) = Cardinality(rtodo[c]) - 1
                 /\ rall'[c].released =
                       Append(rall[c].released, ev'.ret = "true")
            ELSE /\ pc'[c] = "idle"
                 /\ ev'.op = "release_all"
                 /\ ev'.ret = "true" <=> All(rall[c].released)]_vars

----------------------------------------------------------------------------
(* The branches of acquire_lock *)

(* The values client c's clock has shown so far. *)
ClockValues(c) == {Millis(t + ClockOffset[c]) : t \in 0 .. now}

(* The call of c watches a record of the name it asked for, read at one   *)
(* of c's own clock values, whose lease has elapsed by c's clock since    *)
(* that read and whose version is the one just read.                      *)
ExpectedTakeover(c) ==
    LET a == acq[c]
        w == a.watching_lock
    IN  /\ w # None
        /\ w.name = a.name
        /\ w.timestamp \in ClockValues(c)
        /\ Clock(c) > w.timestamp + w.duration
        /\ w.version = a.current_lock.version

(* The conditions of the five cases, as the observed state of the call   *)
(* of c satisfies them: the record just read and the record watched.      *)
CaseCondition(c, i) ==
    LET cur == acq[c].current_lock
        w   == acq[c].watching_lock
    IN  IF i = 1 THEN cur = None
        ELSE IF i = 2 THEN cur # None /\ ~cur.is_locked
        ELSE IF i = 3 THEN /\ cur # None /\ w # None
                           /\ Clock(c) > w.timestamp + w.duration
                           /\ cur.version = w.version
        ELSE IF i = 4 THEN cur # None /\ w = None /\ cur.is_locked
        ELSE /\ cur # None /\ w # None
             /\ cur.version # w.version

(* The call watches a record of the version just read, locked, whose      *)
(* lease has not elapsed by the caller's clock.                           *)
StillWaiting(c) ==
    LET cur == acq[c].current_lock
        w   == acq[c].watching_lock
    IN  /\ cur # None /\ w # None
        /\ cur.is_locked
        /\ cur.version = w.version
        /\ Clock(c) <= w.timestamp + w.duration

(* C25: in every iteration of the loop the observed state satisfies the   *)
(* condition of one of the five cases.                                    *)
FiveCasesExhaustive ==
    \A c \in Clients :
        pc[c] = "got" => \E i \in 1 .. 5 : CaseCondition(c, i)

(* C25 as amended: an iteration takes the first of the five cases whose   *)
(* condition the observed state satisfies, and takes none exactly when    *)
(* the call watches a locked record of the version just read whose lease  *)
(* has not elapsed; such an iteration writes nothing, keeps the record it *)
(* watches and its deadline, and goes on to the cleanup.                  *)
FiveCasesOrStillWaiting ==
    /\ [](\A c \in Clients :
            pc[c] = "got" =>
               LET case == AcquireCase(c, acq[c])
               IN  /\ case = 0 <=> StillWaiting(c)
                   /\ case = 0 <=> ~\E i \in 1 .. 5 : CaseCondition(c, i)
                   /\ case # 0 =>
                         /\ CaseCondition(c, case)
                         /\ \A i \in 1 .. (case - 1) : ~CaseCondition(c, i))
    /\ [][\A c \in Clients :
            (pc[c] = "got" /\ StillWaiting(c) /\ AcquireBranch(c))
            => /\ store' = StoreBefore
               /\ locks' = LocksBefore
               /\ pc'[c] = "loop"
               /\ acq'[c].watching_lock =
                     RenLock(acq[c].watching_lock, ev'.dropped)
               /\ acq'[c].lock_timeout = acq[c].lock_timeout]_vars

(* An iteration that took no case has just ended: the call sleeps, and    *)
(* the record it watches was read before this iteration and has not       *)
(* expired.                                                               *)
FiveCasesOrStillWaitingWitness ==
    \E c \in Clients :
        /\ pc[c] = "loop"
        /\ acq[c].sleep = RetryPeriod
        /\ acq[c].watching_lock # None
        /\ acq[c].watching_lock.timestamp < Clock(c)
        /\ ~IsLockExpired(c, acq[c].watching_lock)

(* C22: an iteration of acquire_lock that read a record with is_locked    *)
(* true issues a write only when the call watches a record whose lease    *)
(* has elapsed by the caller's clock since the caller read it and whose   *)
(* version is the one just read; otherwise (first sight, observed         *)
(* rollover) it issues no write and store and cache stay as they are.     *)
TakeoverPrecondition ==
    [][\A c \in Clients :
         (/\ pc[c] = "got"
          /\ acq[c].current_lock # None
          /\ acq[c].current_lock.is_locked
          /\ AcquireBranch(c))
         => IF ExpectedTakeover(c)
            THEN AcquireCase(c, acq[c]) = 3
            ELSE /\ AcquireCase(c, acq[c]) \notin {1, 2, 3}
                 /\ store' = StoreBefore
                 /\ locks' = LocksBefore
                 /\ pc'[c] = "loop"]_vars

(* A call has just taken a locked row of another owner over. *)
TakeoverPreconditionWitness ==
    /\ ev.op = "acquire" /\ ev.ret = "lock" /\ ev.branch = 3
    /\ ev.name \in Names
    /\ store[ev.name] # NoRow
    /\ store[ev.name].L
    /\ store[ev.name].O = Owner(ev.client)

----------------------------------------------------------------------------
(* Writes to one name *)

(* The step is a call on the row of name n made with a record that has    *)
(* the version the row has: a branch of acquire_lock with the record just *)
(* read, or touch_lock or release_lock with the lock passed.              *)
ConditionedOnStored(n) ==
    \/ \E c \in Clients :
          /\ pc[c] = "got"
          /\ acq[c].name = n
          /\ acq[c].current_lock # None
          /\ acq[c].current_lock.version = store[n].V
          /\ AcquireBranch(c)
    \/ \E c \in Clients : \E lock \in HeldArgs(c) :
          /\ lock.name = n
          /\ lock.version = store[n].V
          /\ \/ TouchLock(c, lock)
             \/ \E d \in DeleteArgs, params \in ReleaseParamsArgs(lock) :
                   ReleaseLockWith(c, lock, d, params)

(* C23: every update or delete of an existing row that succeeds was made  *)
(* with a record of the version the row had, and leaves no row or a row   *)
(* of another version, so that a second write conditioned on the version  *)
(* the row had cannot succeed.                                            *)
WritesSerialized ==
    [][\A n \in Names :
         (store[n] # NoRow /\ store'[n] # StoreBefore[n])
         => /\ ConditionedOnStored(n)
            /\ store'[n] # NoRow => store'[n].V # StoreBefore[n].V]_vars

----------------------------------------------------------------------------
(* touch_lock *)

(* C24: a touch_lock that succeeds found the row with the lock's version, *)
(* owner and name, stores a new version and leaves every other attribute  *)
(* of the row as it was; the cache entry of the name becomes a record     *)
(* other than the one passed, with the new version, the caller's clock as *)
(* timestamp and the other fields of the lock passed; no other row or     *)
(* entry changes.  A touch_lock that fails returns nil and changes        *)
(* neither the store nor the cache.                                       *)
TouchEffect ==
    [][\A c \in Clients : \A lock \in LockArgs(c) :
         (ev'.op = "touch" /\ ev'.client = c /\ TouchLock(c, lock))
         => IF ev'.ret = "lock"
            THEN LET n == lock.name
                 IN  /\ Matches(Row(n), [V |-> lock.version,
                                         O |-> lock.owner, N |-> n])
                     /\ IsNew(store'[n].V)
                     /\ DOMAIN store'[n] = DOMAIN store[n]
                     /\ \A a \in (DOMAIN store[n]) \ {"V"} :
                           store'[n][a] = store[n][a]
                     /\ locks'[c][n] # None
                     /\ locks'[c][n] # RenLock(lock, ev'.dropped)
                     /\ locks'[c][n].version = store'[n].V
                     /\ locks'[c][n].timestamp = Clock(c)
                     /\ \A k \in LockFields \ {"version", "timestamp"} :
                           locks'[c][n][k] = lock[k]
                     /\ \A m \in Names \ {n} : store'[m] = StoreBefore[m]
                     /\ \A d \in Clients, m \in Names :
                           (d # c \/ m # n)
                           => locks'[d][m] = LocksBefore[d][m]
            ELSE /\ ev'.ret = "nil"
                 /\ store' = StoreBefore
                 /\ locks' = LocksBefore]_vars

(* A touch_lock has just renewed a lock that was written a second or more *)
(* before.                                                                *)
TouchEffectWitness ==
    /\ ev.op = "touch" /\ ev.ret = "lock"
    /\ now > 0
    /\ locks[ev.client][ev.name] # None
    /\ locks[ev.client][ev.name].timestamp = Clock(ev.client)
    /\ store[ev.name].V = locks[ev.client][ev.name].version

----------------------------------------------------------------------------
(* Timestamps *)

(* C26: no row ever has an attribute that is not one of the schema's, so  *)
(* none holds a timestamp; a record that a step of client c reads from    *)
(* the table or puts into its cache has the value of c's clock in that    *)
(* step as timestamp.                                                     *)
TimestampsLocal ==
    /\ [](\A n \in Names :
            store[n] # NoRow =>
               (DOMAIN store[n]) \subseteq {Attr[k] : k \in DOMAIN Attr})
    /\ [][\A c \in Clients :
            /\ (/\ acq'[c].current_lock # None
                /\ acq'[c].current_lock #
                      RenLock(acq[c].current_lock, ev'.dropped))
               => acq'[c].current_lock.timestamp = Clock(c)
            /\ \A n \in Names :
                  (locks'[c][n] # None /\ locks'[c][n] # LocksBefore[c][n])
                  => locks'[c][n].timestamp = Clock(c)]_vars

----------------------------------------------------------------------------
(* The handle of a lock that the worker keeps alive *)

(* The worker of c has just renewed lock l, which c acquired, and the     *)
(* lock acquire_lock returned has not expired whenever it was returned:   *)
(* it differs from l in its version, which the renewal took out of the    *)
(* store, and in its timestamp, which is no earlier than c's clock in the *)
(* initial state.                                                         *)
HandleUnexpired(c, l) ==
    /\ Refreshed(c, l) /\ ev.op = "heartbeat"
    /\ Clock(c) <= Millis(ClockOffset[c]) + l.duration
    /\ IsLockValid(c, Stale(l))

(* C27: when the worker has renewed a lock its client acquired, and no    *)
(* other client wrote the row, release_lock with the lock that            *)
(* acquire_lock returned, not yet expired, returns true and leaves the    *)
(* row absent or with is_locked false.                                    *)
HandleStaysReleasable ==
    [][\A c \in Workers : \A l \in CacheValues(c), d \in DeleteArgs :
         (/\ ev'.op = "release" /\ ev'.client = c
          /\ HandleUnexpired(c, l)
          /\ ReleaseLock(c, Stale(l), d))
         => /\ ev'.ret = "true"
            /\ store'[l.name] = NoRow \/ ~store'[l.name].L]_vars

----------------------------------------------------------------------------
(* Mutual exclusion of create, takeover and heartbeat *)

(* Client c has a cached lock for name n that has not expired by c's      *)
(* clock.                                                                 *)
HoldsUnexpired(c, n) ==
    locks[c][n] # None /\ IsLockActive(c, locks[c][n])

(* The delete of a release_lock of client c for name n has succeeded and  *)
(* the call has not yet evicted the name.                                 *)
Releasing(c, n) ==
    pc[c] = "releasing" /\ rel[c].name = n /\ rel[c].ret = "true"

(* C28: where every release deletes the row, so that no row has is_locked *)
(* false, and the clocks advance at the same rate: in every state at most *)
(* one client has a cached lock for a name that has not expired by its    *)
(* clock; and a takeover write succeeds only when the cached lock of the  *)
(* row's owner, if it has one, has expired by that owner's clock.         *)
CoreMutualExclusion ==
    /\ [](\A n \in Names :
            /\ store[n] # NoRow => store[n].L
            /\ Cardinality({c \in Clients : HoldsUnexpired(c, n)}) <= 1)
    /\ [][\A c \in Clients :
            (/\ ev'.op = "acquire" /\ ev'.client = c
             /\ ev'.ret = "lock" /\ ev'.branch = 3)
            => \A d \in Clients :
                  Owner(d) = store[ev'.name].O => ~HoldsUnexpired(d, ev'.name)
          ]_vars

(* C28 as amended: the same of the clients that are not inside a          *)
(* release_lock whose delete has succeeded and whose eviction is still to *)
(* come.                                                                  *)
CoreMutualExclusionOutsideRelease ==
    /\ [](\A n \in Names :
            /\ store[n] # NoRow => store[n].L
            /\ Cardinality({c \in Clients : /\ HoldsUnexpired(c, n)
                                             /\ ~Releasing(c, n)}) <= 1)
    /\ [][\A c \in Clients :
            (/\ ev'.op = "acquire" /\ ev'.client = c
             /\ ev'.ret = "lock" /\ ev'.branch = 3)
            => \A d \in Clients :
                  Owner(d) = store[ev'.name].O => ~HoldsUnexpired(d, ev'.name)
          ]_vars

(* A client has just taken the lock over from a client that wrote its     *)
(* lock after the clock's first second and still has it, expired, in its  *)
(* cache.                                                                 *)
CoreMutualExclusionOutsideReleaseWitness ==
    /\ ev.op = "acquire" /\ ev.ret = "lock" /\ ev.branch = 3
    /\ ev.client = "c2"
    /\ HoldsUnexpired("c2", ev.name)
    /\ locks["c1"][ev.name] # None
    /\ locks["c1"][ev.name].timestamp > Clock("c1") - Millis(now)
    /\ pc["c1"] # "releasing"

----------------------------------------------------------------------------
(* A contender that waits for the lock of a holder that has died.         *)

(* The clock of this scenario runs until the deadline of a call that the  *)
(* contender starts within MaxTime and that waits for the longer lease.   *)
DeadHolderHorizon == MaxTime + 3

(* The lease of the policy, a whole number of retry periods as with the   *)
(* default policy, and one that is not.                                   *)
LeaseArgs == {NoParams, OddLeaseParams}

(* The holder acquires the lock, once, and does nothing after.            *)
DeadHolderAcquires ==
    \E n \in Names \cap NameArgs, params \in LeaseArgs :
        /\ store[n] = NoRow
        /\ locks[Holder][n] = None
        /\ AcquireLock(Holder, n, FALSE, params)

(* The contender calls acquire_lock for a name the holder has locked.     *)
ContenderWaits ==
    \E n \in Names \cap NameArgs :
        /\ now <= MaxTime
        /\ store[n] # NoRow /\ store[n].L /\ store[n].O = Owner(Holder)
        /\ AcquireLock(Contender, n, FALSE, NoParams)

(* A step of the contender's call is due. *)
ContenderDue ==
    \/ pc[Contender] = "got"
    \/ pc[Contender] = "loop" /\ acq[Contender].sleep = 0

(* Time passes when no step of the contender is due: its iterations run   *)
(* when its sleep ends.                                                   *)
TickPrompt == ~ContenderDue /\ TickUntil(DeadHolderHorizon)

NextDeadHolder ==
    \/ DeadHolderAcquires
    \/ ContenderWaits
    \/ \E c \in Clients : AcquireLoop(c)
    \/ \E c \in Clients : AcquireBranch(c)
    \/ TickPrompt

FairDeadHolder ==
    /\ \A c \in Clients : WF_vars(AcquireLoop(c)) /\ WF_vars(AcquireBranch(c))
    /\ WF_vars(TickPrompt)

SpecDeadHolder == Init /\ [][NextDeadHolder]_vars /\ FairDeadHolder

(* C29: a call of the contender with no_wait false that found the lock of *)
(* the dead holder in its first iteration, with a retry period no longer  *)
(* than the acquire timeout, returns, and returns a lock that the         *)
(* contender owns in the store.                                           *)
ContenderGetsChance ==
    /\ [][(pc[Contender] # "idle" /\ pc'[Contender] = "idle")
            => /\ ev'.op = "acquire" /\ ev'.client = Contender
               /\ ev'.ret = "lock"
               /\ store'[ev'.name].O = Owner(Contender)]_vars
    /\ (pc[Contender] # "idle") ~> (pc[Contender] = "idle")

====
